---------------------------- MODULE Spec2Model ----------------------------
(***************************************************************************)
(* Model of lib/xe/oa-configs/codegen.py: the RPN statement compiler, the  *)
(* expression splicer, the availability emitter, the symbol resolver and   *)
(* the counter hash computation.                                           *)
(*                                                                         *)
(* Python strings are TLA+ strings: s + t is s \o t, len(s) is Len(s),     *)
(* s[i] is SubSeq(s, i+1, i+1).  Python lists are sequences; a Python      *)
(* index i is the TLA+ index i+1, so args[0] is args[1] here and args[1]   *)
(* is args[2].  None is <<>> and a present value v is <<v>>.               *)
(***************************************************************************)
EXTENDS Naturals, Sequences, FiniteSets, TLC

(* ----------------------------- bounds --------------------------------- *)

\* Longest token sequence of the general equations given to the statement compiler.
MaxTokens == 5

\* Longest token sequence of the general expressions given to the splicer.
MaxExpTokens == 5

\* Number of counters of the Set whose hashes are computed.
MaxCounters == 2

\* Depth of nested compute_hashes calls at which the interpreter gives up
\* (RecursionError); stands for Python's recursion limit.
MaxDepth == 4

(* ------------------------- Python str helpers ------------------------- *)

Char(s, i) == SubSeq(s, i, i)

IsSpaceChar(c) == c \in {" ", "\t", "\n", "\r", "\f"}

IsDigit(c) == c \in {"0", "1", "2", "3", "4", "5", "6", "7", "8", "9"}

\* sub in s
Contains(s, sub) ==
    \E i \in 1..(Len(s) + 1) : i + Len(sub) - 1 <= Len(s) /\ SubSeq(s, i, i + Len(sub) - 1) = sub

\* str(n) for a natural number n
RECURSIVE Str(_)
Str(n) ==
    LET d == n % 10
        c == CASE d = 0 -> "0" [] d = 1 -> "1" [] d = 2 -> "2" [] d = 3 -> "3" [] d = 4 -> "4"
               [] d = 5 -> "5" [] d = 6 -> "6" [] d = 7 -> "7" [] d = 8 -> "8" [] OTHER -> "9"
    IN  IF n < 10 THEN c ELSE Str(n \div 10) \o c

\* ''.rjust(n)
RECURSIVE Spaces(_)
Spaces(n) == IF n = 0 THEN "" ELSE " " \o Spaces(n - 1)

\* The k-th smallest element of a finite set of numbers
NthSmallest(S, k) == CHOOSE x \in S : Cardinality({ y \in S : y < x }) = k - 1

\* s.rstrip(): s up to its last non-whitespace character
RStrip(s) ==
    LET Keep == { i \in 1..Len(s) : ~IsSpaceChar(Char(s, i)) }
    IN  IF Keep = {} THEN ""
        ELSE SubSeq(s, 1, CHOOSE i \in Keep : \A j \in Keep : j <= i)

\* s.split(): the maximal runs of non-whitespace characters, in order
Split(s) ==
    LET Sp(i) == IsSpaceChar(Char(s, i))
        Starts == { i \in 1..Len(s) : ~Sp(i) /\ (i = 1 \/ Sp(i - 1)) }
        Ends == { i \in 1..Len(s) : ~Sp(i) /\ (i = Len(s) \/ Sp(i + 1)) }
    IN  [ k \in 1..Cardinality(Starts) |->
            SubSeq(s, NthSmallest(Starts, k), NthSmallest(Ends, k)) ]

\* s.split(sep) for a non-empty separator: the pieces between its
\* occurrences, taken left to right without overlap; at least one piece
RECURSIVE SplitOnFrom(_, _, _)
SplitOnFrom(s, sep, i) ==
    LET Occ == { j \in i..(Len(s) + 1) :
                   j + Len(sep) - 1 <= Len(s) /\ SubSeq(s, j, j + Len(sep) - 1) = sep }
    IN  IF Occ = {} THEN << SubSeq(s, i, Len(s)) >>
        ELSE LET j == CHOOSE x \in Occ : \A y \in Occ : x <= y
             IN  << SubSeq(s, i, j - 1) >> \o SplitOnFrom(s, sep, j + Len(sep))

SplitOn(s, sep) == SplitOnFrom(s, sep, 1)

\* s.splitlines(): the pieces between newlines, no empty piece after a final newline
SplitLines(s) ==
    LET NL == { i \in 1..Len(s) : Char(s, i) = "\n" }
        n == Cardinality(NL) + (IF s = "" \/ Char(s, Len(s)) = "\n" THEN 0 ELSE 1)
    IN  [ k \in 1..n |->
            SubSeq(s, IF k = 1 THEN 1 ELSE NthSmallest(NL, k - 1) + 1,
                      IF k <= Cardinality(NL) THEN NthSmallest(NL, k) - 1 ELSE Len(s)) ]

\* sep.join(seq)
RECURSIVE Join(_, _)
Join(sep, seq) ==
    IF seq = <<>> THEN ""
    ELSE IF Len(seq) = 1 THEN seq[1]
    ELSE seq[1] \o sep \o Join(sep, Tail(seq))

LowerChar(c) ==
    CASE c = "A" -> "a" [] c = "B" -> "b" [] c = "C" -> "c" [] c = "D" -> "d" [] c = "E" -> "e"
      [] c = "F" -> "f" [] c = "G" -> "g" [] c = "H" -> "h" [] c = "I" -> "i" [] c = "J" -> "j"
      [] c = "K" -> "k" [] c = "L" -> "l" [] c = "M" -> "m" [] c = "N" -> "n" [] c = "O" -> "o"
      [] c = "P" -> "p" [] c = "Q" -> "q" [] c = "R" -> "r" [] c = "S" -> "s" [] c = "T" -> "t"
      [] c = "U" -> "u" [] c = "V" -> "v" [] c = "W" -> "w" [] c = "X" -> "x" [] c = "Y" -> "y"
      [] c = "Z" -> "z" [] OTHER -> c

\* s.lower()
RECURSIVE Lower(_)
Lower(s) ==
    IF Len(s) <= 1 THEN LowerChar(s)
    ELSE Lower(SubSeq(s, 1, Len(s) \div 2)) \o Lower(SubSeq(s, Len(s) \div 2 + 1, Len(s)))

\* None and present values
None == <<>>
Some(v) == <<v>>


(* ----------------------- Hardware Variable Table ---------------------- *)

hw_vars_mapping ==
    "$EuCoresTotalCount" :> "perf->devinfo.n_eus" @@
    "$EuSlicesTotalCount" :> "perf->devinfo.n_eu_slices" @@
    "$EuSubslicesTotalCount" :> "perf->devinfo.n_eu_sub_slices" @@
    "$EuDualSubslicesTotalCount" :> "perf->devinfo.n_eu_sub_slices" @@
    "$EuDualSubslicesSlice0123Count" :> "perf->devinfo.n_eu_sub_slices_half_slices" @@
    "$EuThreadsCount" :> "perf->devinfo.eu_threads_count" @@
    "$VectorEngineTotalCount" :> "perf->devinfo.n_eus" @@
    "$VectorEnginePerXeCoreCount" :> "perf->devinfo.n_eu_sub_slices" @@
    "$VectorEngineThreadsCount" :> "perf->devinfo.eu_threads_count" @@
    "$SliceMask" :> "perf->devinfo.slice_mask" @@
    "$SliceTotalCount" :> "perf->devinfo.n_eu_slices" @@
    "$SubsliceMask" :> "perf->devinfo.subslice_mask" @@
    "$DualSubsliceMask" :> "perf->devinfo.subslice_mask" @@
    "$GtSliceMask" :> "perf->devinfo.slice_mask" @@
    "$GtSubsliceMask" :> "perf->devinfo.subslice_mask" @@
    "$GtDualSubsliceMask" :> "perf->devinfo.subslice_mask" @@
    "$GtXeCoreMask" :> "perf->devinfo.slice_mask" @@
    "$XeCoreMask" :> "perf->devinfo.slice_mask" @@
    "$XeCoreTotalCount" :> "perf->devinfo.n_eu_sub_slices" @@
    "$GpuTimestampFrequency" :> "perf->devinfo.timestamp_frequency" @@
    "$GpuMinFrequency" :> "perf->devinfo.gt_min_freq" @@
    "$GpuMaxFrequency" :> "perf->devinfo.gt_max_freq" @@
    "$SkuRevisionId" :> "perf->devinfo.revision" @@
    "$QueryMode" :> "perf->devinfo.query_mode"

(* ------------------------------ the Set ------------------------------- *)

\* Attributes of the <set> element every modelled Set is built from.
SetXml == [name |-> "TestOa", underscore_name |-> "test_oa", chipset |-> "LNL"]

\* Gen.chipset
chipset == Lower(SetXml.chipset)

\* Attributes of the i-th <counter> element other than its equations.
CounterAttrs ==
    << [symbol_name |-> "A", name |-> "Counter A", underscore_name |-> "a"],
       [symbol_name |-> "B", name |-> "Counter B", underscore_name |-> "b"],
       [symbol_name |-> "C", name |-> "Counter C", underscore_name |-> "c"],
       [symbol_name |-> "D", name |-> "Counter D", underscore_name |-> "d"] >>

\* Counter.read_sym of a <counter> element c
read_sym(c) == chipset \o "__" \o SetXml.underscore_name \o "__" \o c.underscore_name \o "__read"

\* Keys of Set.counter_vars for the counter elements cs
counter_vars_keys(cs) == { "$" \o cs[i].symbol_name : i \in 1..Len(cs) }

\* Set.counter_vars[key]: the index of the last counter element with that symbol
counter_vars(cs, key) ==
    CHOOSE i \in 1..Len(cs) :
        /\ "$" \o cs[i].symbol_name = key
        /\ \A j \in 1..Len(cs) : "$" \o cs[j].symbol_name = key => j <= i

\* Set.read_funcs[key]
read_funcs(cs, key) == read_sym(cs[counter_vars(cs, key)])

(* --------------------------- Symbol Resolver -------------------------- *)

AllDigits(s) == Len(s) > 0 /\ \A k \in 1..Len(s) : IsDigit(Char(s, k))

\* re.search(r'\$GtSlice([0-9]+)$', name): <<group 1>>, or None
MatchSlice(name) ==
    LET P == "$GtSlice"
        Hit(i) == /\ i + Len(P) - 1 <= Len(name)
                  /\ SubSeq(name, i, i + Len(P) - 1) = P
                  /\ AllDigits(SubSeq(name, i + Len(P), Len(name)))
    IN  IF \E i \in 1..Len(name) : Hit(i)
        THEN LET i == CHOOSE i \in 1..Len(name) : Hit(i)
             IN  <<SubSeq(name, i + Len(P), Len(name))>>
        ELSE None

\* re.search(r'\$GtSlice([0-9]+)<mid>([0-9]+)$', name): <<group 1, group 2>>, or None
MatchSliceSub(name, mid) ==
    LET P == "$GtSlice"
        Hit(i, j) == /\ i + Len(P) - 1 <= Len(name)
                     /\ SubSeq(name, i, i + Len(P) - 1) = P
                     /\ j > i + Len(P)
                     /\ AllDigits(SubSeq(name, i + Len(P), j - 1))
                     /\ j + Len(mid) - 1 <= Len(name)
                     /\ SubSeq(name, j, j + Len(mid) - 1) = mid
                     /\ AllDigits(SubSeq(name, j + Len(mid), Len(name)))
        Pairs == { p \in (1..Len(name)) \X (1..Len(name)) : Hit(p[1], p[2]) }
    IN  IF Pairs # {}
        THEN LET p == CHOOSE p \in Pairs : TRUE
             IN  << SubSeq(name, p[1] + Len(P), p[2] - 1),
                    SubSeq(name, p[2] + Len(mid), Len(name)) >>
        ELSE None

\* Gen.resolve_variable(name, set): <<accessor expression>>, or None
\* resolve_variable without its first test, the table of hardware variables
resolve_variable_untabled(name, cs) ==
    IF name \in counter_vars_keys(cs)
    THEN Some(read_funcs(cs, name) \o "(perf, metric_set, accumulator)")
    ELSE None

\* resolve_variable asking the Set's counters before the table
resolve_variable_counters_first(name, cs) ==
    IF name \in counter_vars_keys(cs)
    THEN Some(read_funcs(cs, name) \o "(perf, metric_set, accumulator)")
    ELSE IF name \in DOMAIN hw_vars_mapping THEN Some(hw_vars_mapping[name])
    ELSE IF MatchSlice(name) # None
    THEN Some("intel_xe_perf_devinfo_slice_available(&perf->devinfo, "
              \o MatchSlice(name)[1] \o ")")
    ELSE None

resolve_variable(name, cs) ==
    IF name \in DOMAIN hw_vars_mapping THEN Some(hw_vars_mapping[name])
    ELSE IF name \in counter_vars_keys(cs)
    THEN Some(read_funcs(cs, name) \o "(perf, metric_set, accumulator)")
    ELSE IF MatchSlice(name) # None
    THEN Some("intel_xe_perf_devinfo_slice_available(&perf->devinfo, "
              \o MatchSlice(name)[1] \o ")")
    ELSE IF MatchSliceSub(name, "DualSubslice") # None
    THEN Some("intel_xe_perf_devinfo_subslice_available(&perf->devinfo, "
              \o MatchSliceSub(name, "DualSubslice")[1] \o ", "
              \o MatchSliceSub(name, "DualSubslice")[2] \o ")")
    ELSE IF MatchSliceSub(name, "XeCore") # None
    THEN Some("intel_xe_perf_devinfo_subslice_available(&perf->devinfo, "
              \o MatchSliceSub(name, "XeCore")[1] \o ", "
              \o MatchSliceSub(name, "XeCore")[2] \o ")")
    ELSE None

(* ------------------- statement emission strategies -------------------- *)
(* Each strategy yields the code strings it hands to the sink, in order,   *)
(* and the temporary id it returns.  args[1] is the operand popped first   *)
(* (Python args[0]), args[2] the operand popped second (Python args[1]).   *)

emit_fadd(tmp_id, args) ==
    [code |-> << "double tmp" \o Str(tmp_id) \o " = " \o args[2] \o " + " \o args[1] \o ";" >>,
     ret |-> tmp_id + 1]

\* emit_fdiv returning the id after its first temporary
emit_fdiv_short(tmp_id, args) ==
    [code |-> << "double tmp" \o Str(tmp_id) \o " = " \o args[2] \o ";",
                 "double tmp" \o Str(tmp_id + 1) \o " = " \o args[1] \o ";",
                 "double tmp" \o Str(tmp_id + 2) \o " = tmp" \o Str(tmp_id + 1)
                      \o " ? tmp" \o Str(tmp_id) \o " / tmp" \o Str(tmp_id + 1) \o " : 0;" >>,
     ret |-> tmp_id + 1]

emit_fdiv(tmp_id, args) ==
    [code |-> << "double tmp" \o Str(tmp_id) \o " = " \o args[2] \o ";",
                 "double tmp" \o Str(tmp_id + 1) \o " = " \o args[1] \o ";",
                 "double tmp" \o Str(tmp_id + 2) \o " = tmp" \o Str(tmp_id + 1)
                      \o " ? tmp" \o Str(tmp_id) \o " / tmp" \o Str(tmp_id + 1) \o " : 0;" >>,
     ret |-> tmp_id + 3]

emit_fmax(tmp_id, args) ==
    [code |-> << "double tmp" \o Str(tmp_id) \o " = " \o args[2] \o ";",
                 "double tmp" \o Str(tmp_id + 1) \o " = " \o args[1] \o ";",
                 "double tmp" \o Str(tmp_id + 2) \o " = MAX(tmp" \o Str(tmp_id)
                      \o ", tmp" \o Str(tmp_id + 1) \o ");" >>,
     ret |-> tmp_id + 3]

emit_fmul(tmp_id, args) ==
    [code |-> << "double tmp" \o Str(tmp_id) \o " = " \o args[2] \o " * " \o args[1] \o ";" >>,
     ret |-> tmp_id + 1]

emit_fsub(tmp_id, args) ==
    [code |-> << "double tmp" \o Str(tmp_id) \o " = " \o args[2] \o " - " \o args[1] \o ";" >>,
     ret |-> tmp_id + 1]

emit_read(tmp_id, args) ==
    [code |-> << "uint64_t tmp" \o Str(tmp_id) \o " = accumulator[metric_set->"
                      \o Lower(args[2]) \o "_offset + " \o args[1] \o "];" >>,
     ret |-> tmp_id + 1]

emit_uadd(tmp_id, args) ==
    [code |-> << "uint64_t tmp" \o Str(tmp_id) \o " = " \o args[2] \o " + " \o args[1] \o ";" >>,
     ret |-> tmp_id + 1]

\* emit_udiv dividing by its operand as it stands, in one statement
emit_udiv_unguarded(tmp_id, args) ==
    [code |-> << "uint64_t tmp" \o Str(tmp_id) \o " = " \o args[2] \o " / " \o args[1] \o ";" >>,
     ret |-> tmp_id + 1]

emit_udiv(tmp_id, args) ==
    [code |-> << "uint64_t tmp" \o Str(tmp_id) \o " = " \o args[2] \o ";",
                 "uint64_t tmp" \o Str(tmp_id + 1) \o " = " \o args[1] \o ";",
                 "uint64_t tmp" \o Str(tmp_id + 2) \o " = tmp" \o Str(tmp_id + 1)
                      \o " ? tmp" \o Str(tmp_id) \o " / tmp" \o Str(tmp_id + 1) \o " : 0;" >>,
     ret |-> tmp_id + 3]

emit_umul(tmp_id, args) ==
    [code |-> << "uint64_t tmp" \o Str(tmp_id) \o " = " \o args[2] \o " * " \o args[1] \o ";" >>,
     ret |-> tmp_id + 1]

\* emit_usub with its two operands exchanged
emit_usub_exchanged(tmp_id, args) ==
    [code |-> << "uint64_t tmp" \o Str(tmp_id) \o " = " \o args[1] \o " - " \o args[2] \o ";" >>,
     ret |-> tmp_id + 1]

emit_usub(tmp_id, args) ==
    [code |-> << "uint64_t tmp" \o Str(tmp_id) \o " = " \o args[2] \o " - " \o args[1] \o ";" >>,
     ret |-> tmp_id + 1]

emit_umin(tmp_id, args) ==
    [code |-> << "uint64_t tmp" \o Str(tmp_id) \o " = MIN(" \o args[2] \o ", "
                      \o args[1] \o ");" >>,
     ret |-> tmp_id + 1]

emit_lshft(tmp_id, args) ==
    [code |-> << "uint64_t tmp" \o Str(tmp_id) \o " = " \o args[2] \o " << " \o args[1] \o ";" >>,
     ret |-> tmp_id + 1]

emit_rshft(tmp_id, args) ==
    [code |-> << "uint64_t tmp" \o Str(tmp_id) \o " = " \o args[2] \o " >> " \o args[1] \o ";" >>,
     ret |-> tmp_id + 1]

emit_and(tmp_id, args) ==
    [code |-> << "uint64_t tmp" \o Str(tmp_id) \o " = " \o args[2] \o " & " \o args[1] \o ";" >>,
     ret |-> tmp_id + 1]

emit_ulte(tmp_id, args) ==
    [code |-> << "uint64_t tmp" \o Str(tmp_id) \o " = " \o args[2] \o " <= " \o args[1] \o ";" >>,
     ret |-> tmp_id + 1]

emit_ult(tmp_id, args) ==
    [code |-> << "uint64_t tmp" \o Str(tmp_id) \o " = " \o args[2] \o " < " \o args[1] \o ";" >>,
     ret |-> tmp_id + 1]

emit_ugte(tmp_id, args) ==
    [code |-> << "uint64_t tmp" \o Str(tmp_id) \o " = " \o args[2] \o " >= " \o args[1] \o ";" >>,
     ret |-> tmp_id + 1]

emit_ugt(tmp_id, args) ==
    [code |-> << "uint64_t tmp" \o Str(tmp_id) \o " = " \o args[2] \o " > " \o args[1] \o ";" >>,
     ret |-> tmp_id + 1]

\* Gen.ops: operator token -> number of operands
ops ==
    [ o \in {"FADD", "FDIV", "FMAX", "FMUL", "FSUB", "READ", "UADD", "UDIV", "UMUL",
             "USUB", "UMIN", "<<", ">>", "AND", "UGTE", "UGT", "ULTE", "ULT"} |-> 2 ]

\* Gen.ops[op][1](tmp_id, args)
ops_callback(op, tmp_id, args) ==
    CASE op = "FADD" -> emit_fadd(tmp_id, args)
      [] op = "FDIV" -> emit_fdiv(tmp_id, args)
      [] op = "FMAX" -> emit_fmax(tmp_id, args)
      [] op = "FMUL" -> emit_fmul(tmp_id, args)
      [] op = "FSUB" -> emit_fsub(tmp_id, args)
      [] op = "READ" -> emit_read(tmp_id, args)
      [] op = "UADD" -> emit_uadd(tmp_id, args)
      [] op = "UDIV" -> emit_udiv(tmp_id, args)
      [] op = "UMUL" -> emit_umul(tmp_id, args)
      [] op = "USUB" -> emit_usub(tmp_id, args)
      [] op = "UMIN" -> emit_umin(tmp_id, args)
      [] op = "<<" -> emit_lshft(tmp_id, args)
      [] op = ">>" -> emit_rshft(tmp_id, args)
      [] op = "AND" -> emit_and(tmp_id, args)
      [] op = "UGTE" -> emit_ugte(tmp_id, args)
      [] op = "UGT" -> emit_ugt(tmp_id, args)
      [] op = "ULTE" -> emit_ulte(tmp_id, args)
      [] op = "ULT" -> emit_ult(tmp_id, args)

(* ------------------------- splicing strategies ------------------------ *)

\* brkt wrapping whatever it is given
brkt_always(subexp) == "(" \o subexp \o ")"

brkt(subexp) == IF Contains(subexp, " ") THEN "(" \o subexp \o ")" ELSE subexp

splice_bitwise_and(args) == brkt(args[2]) \o " & " \o brkt(args[1])

splice_logical_and(args) == brkt(args[2]) \o " && " \o brkt(args[1])

splice_ulte(args) == brkt(args[2]) \o " <= " \o brkt(args[1])

splice_ult(args) == brkt(args[2]) \o " < " \o brkt(args[1])

splice_ugte(args) == brkt(args[2]) \o " >= " \o brkt(args[1])

splice_ugt(args) == brkt(args[2]) \o " > " \o brkt(args[1])

splice_lshft(args) == "(" \o brkt(args[2]) \o " << " \o brkt(args[1]) \o ")"

splice_rshft(args) == "(" \o brkt(args[2]) \o " >> " \o brkt(args[1]) \o ")"

splice_uml(args) == brkt(args[2]) \o " * " \o brkt(args[1])

\* Gen.exp_ops: operator token -> number of operands
exp_ops == [ o \in {"AND", "UGTE", "UGT", "ULTE", "ULT", "&&", "<<", ">>", "UMUL"} |-> 2 ]

\* Gen.exp_ops[op][1](args)
exp_ops_callback(op, args) ==
    CASE op = "AND" -> splice_bitwise_and(args)
      [] op = "UGTE" -> splice_ugte(args)
      [] op = "UGT" -> splice_ugt(args)
      [] op = "ULTE" -> splice_ulte(args)
      [] op = "ULT" -> splice_ult(args)
      [] op = "&&" -> splice_logical_and(args)
      [] op = "<<" -> splice_lshft(args)
      [] op = ">>" -> splice_rshft(args)
      [] op = "UMUL" -> splice_uml(args)

(* ------------------------------ the sink ------------------------------ *)

use_tabs == FALSE

\* indent.replace("        ", "\t") on a string of n spaces
RECURSIVE TabbedIndent(_)
TabbedIndent(n) == IF n >= 8 THEN "\t" \o TabbedIndent(n - 8) ELSE Spaces(n)

WriteLine(ind, line) ==
    RStrip((IF use_tabs THEN TabbedIndent(ind) ELSE Spaces(ind)) \o line)

\* Codegen.__call__(code) on an open file: the file's lines afterwards
CodegenCall(f, ind, code) ==
    f \o [ k \in 1..Len(SplitLines(code)) |-> WriteLine(ind, SplitLines(code)[k]) ]

\* Codegen.__call__ for each code string of a sequence, in order
RECURSIVE CodegenCalls(_, _, _)
CodegenCalls(f, ind, codes) ==
    IF codes = <<>> THEN f
    ELSE CodegenCalls(CodegenCall(f, ind, Head(codes)), ind, Tail(codes))

(* ------------------------------- state -------------------------------- *)

VARIABLES
    mode,       \* entry point this run exercises: "code", "avail" or "hash"
    pc,         \* position in the running entry point
    counters,   \* the <counter> elements of the Set (Set.counters, by index)
    read_hash,  \* Counter.read_hash of each counter
    max_hash,   \* Counter.max_hash of each counter
    frames,     \* active compute_hashes calls, innermost last
    ci,         \* position of Set.__init__'s loop over its counters
    prev_set,   \* the counters and their read_hash at the end of the previous run
    edited,     \* counter whose equation was edited before this run, else 0
    equation,   \* the equation (availability expression) being compiled
    counter,    \* index of the counter the equation belongs to
    tokens,     \* equation.split()
    ti,         \* position of the loop over tokens
    stack,      \* the operand stack
    operand,    \* the operand popped last, None before the first pop
    tmp_id,     \* next free temporary id
    calls,      \* strategy invocations so far: operator, arguments, return value,
                \* token position, lines in the file before it and lines it wrote
    value,      \* value returned by splice_rpn_expression
    raised,     \* the exception that ended the run
    c_file,     \* lines written to the sink's file
    c_indent    \* Codegen._indent

hashVars == <<read_hash, max_hash, frames, ci, prev_set, edited>>
rpnVars == <<equation, counter, tokens, ti, stack, operand, tmp_id, calls, value>>
sinkVars == <<c_file, c_indent>>
vars == <<mode, pc, counters, hashVars, rpnVars, sinkVars, raised>>

\* An exception: its type, its message and the source line that raised it.
NoException == [type |-> "", msg |-> "", line |-> 0]

Last(seq) == seq[Len(seq)]
Front(seq) == SubSeq(seq, 1, Len(seq) - 1)

(* ------------------------------- inputs ------------------------------- *)

SeqsUpTo(S, n) == UNION { [1..k -> S] : k \in 0..n }

\* Operand tokens: a literal, a hardware variable, a sibling counter, an
\* undefined symbol, a pattern-family variable.
Operands == {"1", "$EuCoresTotalCount", "$A", "$B", "$Unknown", "$GtSlice0"}

\* Tokens of the general statement equations.
CodeTokens == {"1", "$A", "$Unknown", "UADD", "FDIV"}

\* Single-token equations: every hardware variable, pattern-family shapes,
\* a counter, an undefined symbol, a literal.
SingleTokens ==
    DOMAIN hw_vars_mapping \cup
    {"$GtSlice0", "$GtSlice12", "$GtSlice1XeCore2", "$GtSlice0DualSubslice13",
     "$GtSlice", "$B", "$Unknown", "7"}

\* "a b OP" for every operator of a table and every pair of operands
BinaryEquations(table) ==
    { Join(" ", <<a, b, o>>) : a \in Operands \cup {"A"}, b \in Operands, o \in DOMAIN table }

\* The statement equations: the general ones, "a b OP", the single tokens,
\* ill-formed ones, and ones whose operand tokens are spelled like the
\* compiler's temporaries.
CodeEquations ==
    { Join(" ", ts) : ts \in SeqsUpTo(CodeTokens, MaxTokens) }
      \cup BinaryEquations(ops) \cup SingleTokens
      \cup {"  1   2 UADD ", "1 2 UADD UADD", "1 2 3 UADD", "1 2 NOP"}
      \cup {"tmp5", "tmp0 1 UADD", "tmp1 1 UADD 1 UADD", "1 2 UADD 0 READ"}

\* Tokens of the general availability expressions.
ExpTokens == {"1", "$A", "$Unknown", "&&", "AND"}

\* "a b OP1 c OP2" and "a b c OP1 OP2": a composite operand on either side
NestedExpressions ==
    { Join(" ", <<a, "2", o1, "3", o2>>) : a \in {"1", "$A"}, o1 \in DOMAIN exp_ops, o2 \in DOMAIN exp_ops }
      \cup { Join(" ", <<a, "2", "3", o1, o2>>) : a \in {"1", "$A"}, o1 \in DOMAIN exp_ops, o2 \in DOMAIN exp_ops }

ExpEquations ==
    { Join(" ", ts) : ts \in SeqsUpTo(ExpTokens, MaxExpTokens) }
      \cup BinaryEquations(exp_ops) \cup NestedExpressions \cup SingleTokens
      \cup {"1 2 && 3 && 4 &&", "1 2 3 4 && && &&", "1 2 && 3 4 && &&"}

\* Who calls the compiler: for which counter, at which indentation of the sink.
CallContexts == { [counter |-> 1, indent |-> 0], [counter |-> 2, indent |-> 4] }

\* The equations of the Set the statement compiler and the splicer run in;
\* none references a sibling counter.
BuiltEquations ==
    << [equation |-> "1 2 UADD", max_equation |-> None],
       [equation |-> "$EuCoresTotalCount  4 UDIV", max_equation |-> Some("100")] >>

BuiltCounters == [ i \in 1..2 |-> CounterAttrs[i] @@ BuiltEquations[i] ]

\* Equations of the Sets whose hashes are computed.
HashEquations == {"1 2 UADD", "1 1 UADD", "$A 2 UMUL", "$B", "$EuCoresTotalCount  $C 1"}

HashMaxEquations == {None, Some("100"), Some("$A $B UADD")}

HashCatalogs ==
    { [ i \in 1..MaxCounters |-> CounterAttrs[i] @@ e[i] ] :
        e \in [1..MaxCounters -> [equation : HashEquations, max_equation : HashMaxEquations]] }

\* Literal tokens an edit of the catalog may put in place of another.
Literals == {"1", "2"}

\* Tokens given to the resolver on its own: the single-token equations, and
\* names near the pattern families, the counters and the table.
ResolverTokens ==
    SingleTokens \cup
    {"$A", "$a", "A", "GtSlice0", "x$GtSlice0", "$GtSlice01", "$GtSlice0x", "$GtSlice1XeCore",
     "$GtSliceXeCore1", "$GtSlice2DualSubslice", "$GtSlice0XeCore1DualSubslice2",
     "$GtSlice0DualSubslice1XeCore2", "$EuCoresTotalCount0", "$"}

\* Symbol names of the counters of the Sets the resolver is given; some are
\* also names of the table and of a pattern family.
ResolverSymbols == {"A", "Unknown", "EuCoresTotalCount", "GtSlice0"}

ResolverCatalogs ==
    UNION { { [ i \in 1..k |-> [CounterAttrs[i] EXCEPT !.symbol_name = syms[i]]
                                 @@ [equation |-> "1", max_equation |-> None] ] :
                syms \in [1..k -> ResolverSymbols] } : k \in 0..MaxCounters }

\* Symbol names of the counters of the Sets whose hashes are computed with
\* names the resolver also knows: a counter named like a key of the table and
\* one named like a variable of a pattern family.
CollidingSymbols == {"A", "EuCoresTotalCount", "GtSlice0"}

CollidingEquations == {"1 2 UADD", "$EuCoresTotalCount $A UADD", "$GtSlice0 $Unknown 1"}

CollidingMaxEquations == {None, Some("$EuCoresTotalCount 2 UMUL")}

CollidingCatalogs ==
    { [ i \in 1..MaxCounters |-> [CounterAttrs[i] EXCEPT !.symbol_name = e[i].symbol_name]
                                   @@ [equation |-> e[i].equation,
                                       max_equation |-> e[i].max_equation] ] :
        e \in [1..MaxCounters -> [symbol_name : CollidingSymbols,
                                  equation : CollidingEquations,
                                  max_equation : CollidingMaxEquations]] }

\* Registry.chipset_name, lines 88-104 of oa_guid_registry.py
known_chipsets ==
    << "HSW", "BDW", "CHV", "SKL", "BXT", "KBL", "GLK", "CFL", "CNL", "ICL", "EHL", "TGL",
       "RKL", "DG1", "ACM", "PVC", "MTL" >>

\* Identifiers given to chipset_name: the known ones, their lower-case
\* spellings, their first two letters, and others.
ChipsetNames ==
    { known_chipsets[i] : i \in 1..Len(known_chipsets) }
      \cup { Lower(known_chipsets[i]) : i \in 1..Len(known_chipsets) }
      \cup { SubSeq(known_chipsets[i], 1, 2) : i \in 1..Len(known_chipsets) }
      \cup {"LNL", "XE2", "", "HSW ", " HSW", "HSWBDW"}

(* -------------------------------- Init -------------------------------- *)

NoHashes(cs) == [ i \in 1..Len(cs) |-> None ]

NoSet == [counters |-> <<>>, read_hash |-> <<>>]

InitRpn ==
    /\ tokens = <<>>
    /\ ti = 1
    /\ stack = <<>>
    /\ operand = None
    /\ tmp_id = 0
    /\ calls = <<>>
    /\ value = None
    /\ raised = NoException
    /\ c_file = <<>>

\* A Set already built (its hashes computed), before the entry point is called.
InitBuilt ==
    /\ pc = "idle"
    /\ counters = BuiltCounters
    /\ read_hash = [ i \in 1..2 |-> Some(Join(" ", Split(BuiltCounters[i].equation))) ]
    /\ max_hash = [ i \in 1..2 |->
                      IF BuiltCounters[i].max_equation = None THEN None
                      ELSE Some(Join(" ", Split(BuiltCounters[i].max_equation[1]))) ]
    /\ frames = <<>>
    /\ ci = 3
    /\ prev_set = NoSet
    /\ edited = 0
    /\ \E ctx \in CallContexts : counter = ctx.counter /\ c_indent = ctx.indent
    /\ InitRpn

InitCode == mode = "code" /\ InitBuilt /\ equation \in CodeEquations

InitAvail == mode = "avail" /\ InitBuilt /\ equation \in ExpEquations

\* A Set whose counters exist and whose tables are filled (Set.__init__ up to
\* its second loop), before any hash is computed.
InitHash ==
    /\ mode = "hash"
    /\ pc = "set_init"
    /\ counters \in HashCatalogs
    /\ read_hash = NoHashes(counters)
    /\ max_hash = NoHashes(counters)
    /\ frames = <<>>
    /\ ci = 1
    /\ prev_set = NoSet
    /\ edited = 0
    /\ equation = ""
    /\ counter = 1
    /\ c_indent = 0
    /\ InitRpn

\* As InitHash, the counters bearing names the resolver also knows.
InitHashColliding ==
    /\ mode = "hash"
    /\ pc = "set_init"
    /\ counters \in CollidingCatalogs
    /\ read_hash = NoHashes(counters)
    /\ max_hash = NoHashes(counters)
    /\ frames = <<>>
    /\ ci = 1
    /\ prev_set = NoSet
    /\ edited = 0
    /\ equation = ""
    /\ counter = 1
    /\ c_indent = 0
    /\ InitRpn

\* A Set already built, before resolve_variable is called with a token.
InitResolve ==
    /\ mode = "resolve"
    /\ pc = "idle"
    /\ counters \in ResolverCatalogs
    /\ read_hash = [ i \in 1..Len(counters) |-> Some("1") ]
    /\ max_hash = NoHashes(counters)
    /\ frames = <<>>
    /\ ci = Len(counters) + 1
    /\ prev_set = NoSet
    /\ edited = 0
    /\ equation \in ResolverTokens
    /\ counter = 1
    /\ c_indent \in {0, 4}
    /\ InitRpn

\* Before Registry.chipset_name is called with an identifier; no Set is involved.
InitRegistry ==
    /\ mode = "registry"
    /\ pc = "idle"
    /\ counters = <<>>
    /\ read_hash = <<>>
    /\ max_hash = <<>>
    /\ frames = <<>>
    /\ ci = 1
    /\ prev_set = NoSet
    /\ edited = 0
    /\ equation \in ChipsetNames
    /\ counter = 1
    /\ c_indent = 0
    /\ InitRpn

Init ==
    InitCode \/ InitAvail \/ InitHash \/ InitHashColliding \/ InitResolve \/ InitRegistry

(* ------------------- the operand loop of both walks ------------------- *)

\* PopOperands handing an operand that does not resolve to the strategy as it is
RECURSIVE PopOperands_lenient(_, _, _, _, _)
PopOperands_lenient(stk, argc, args, opd, cs) ==
    IF argc = 0 THEN [status |-> "ok", stack |-> stk, args |-> args, operand |-> opd]
    ELSE IF stk = <<>>
    THEN [status |-> "IndexError", stack |-> stk, args |-> args, operand |-> opd]
    ELSE IF Char(Last(stk), 1) = "$" /\ resolve_variable(Last(stk), cs) # None
    THEN PopOperands_lenient(Front(stk), argc - 1,
                             Append(args, resolve_variable(Last(stk), cs)[1]),
                             resolve_variable(Last(stk), cs), cs)
    ELSE PopOperands_lenient(Front(stk), argc - 1, Append(args, Last(stk)),
                             Some(Last(stk)), cs)

\* for i in range(0, argc): operand = stack.pop(); resolve it when it starts
\* with "$"; args.append(operand).  Ends "ok" with the operands in pop order,
\* "IndexError" on a pop from the empty stack, or "unresolved" at the first
\* operand resolve_variable gives None for; opd is the variable operand.
RECURSIVE PopOperands(_, _, _, _, _)
PopOperands(stk, argc, args, opd, cs) ==
    IF argc = 0 THEN [status |-> "ok", stack |-> stk, args |-> args, operand |-> opd]
    ELSE IF stk = <<>>
    THEN [status |-> "IndexError", stack |-> stk, args |-> args, operand |-> opd]
    ELSE IF Char(Last(stk), 1) = "$"
    THEN IF resolve_variable(Last(stk), cs) = None
         THEN [status |-> "unresolved", stack |-> Front(stk), args |-> args,
               operand |-> Some(Last(stk))]
         ELSE PopOperands(Front(stk), argc - 1,
                          Append(args, resolve_variable(Last(stk), cs)[1]),
                          resolve_variable(Last(stk), cs), cs)
    ELSE PopOperands(Front(stk), argc - 1, Append(args, Last(stk)), Some(Last(stk)), cs)

IndexError(line) == [type |-> "IndexError", msg |-> "pop from empty list", line |-> line]

Exception(msg, line) == [type |-> "Exception", msg |-> msg, line |-> line]

Raise(exc) ==
    /\ raised' = exc
    /\ pc' = "raised"

(* ------------------- Gen.output_rpn_equation_code --------------------- *)

\* lines 353-356
Code_Call ==
    /\ mode = "code" /\ pc = "idle"
    /\ c_file' = CodegenCall(c_file, c_indent, "/* RPN equation: " \o equation \o " */")
    /\ tokens' = Split(equation)
    /\ stack' = <<>>
    /\ tmp_id' = 0
    /\ ti' = 1
    /\ pc' = "for"
    /\ UNCHANGED <<mode, counters, hashVars, equation, counter, operand, calls, value, raised,
                   c_indent>>

\* Code_For dropping an operator token that finds too few operands on the stack
Code_For_skipping ==
    /\ mode = "code" /\ pc = "for"
    /\ ti <= Len(tokens)
    /\ stack' = IF tokens[ti] \in DOMAIN ops /\ Len(stack) < ops[tokens[ti]]
                THEN stack
                ELSE Append(stack, tokens[ti])
    /\ ti' = ti + 1
    /\ pc' = "while"
    /\ UNCHANGED <<mode, counters, hashVars, equation, counter, tokens, operand, tmp_id, calls,
                   value, raised, sinkVars>>

\* lines 359-360: the next token is pushed
Code_For ==
    /\ mode = "code" /\ pc = "for"
    /\ ti <= Len(tokens)
    /\ stack' = Append(stack, tokens[ti])
    /\ ti' = ti + 1
    /\ pc' = "while"
    /\ UNCHANGED <<mode, counters, hashVars, equation, counter, tokens, operand, tmp_id, calls,
                   value, raised, sinkVars>>

code_unresolved_msg(name) ==
    "Failed to resolve variable " \o name \o " in equation " \o equation \o " for "
        \o SetXml.name \o " :: " \o counters[counter].name

\* Code_WhileOp not pushing the name of the temporary back on the stack
Code_WhileOp_unpushed ==
    /\ mode = "code" /\ pc = "while"
    /\ stack # <<>> /\ Last(stack) \in DOMAIN ops
    /\ LET op == Last(stack)
           r == PopOperands(Front(stack), ops[op], <<>>, operand, counters)
           e == ops_callback(op, tmp_id, r.args)
       IN  /\ stack' = r.stack
           /\ operand' = r.operand
           /\ CASE r.status = "IndexError" ->
                     /\ Raise(IndexError(366))
                     /\ UNCHANGED <<tmp_id, calls, c_file>>
                [] r.status = "unresolved" ->
                     /\ Raise(Exception(code_unresolved_msg(r.operand[1]), 370))
                     /\ UNCHANGED <<tmp_id, calls, c_file>>
                [] r.status = "ok" ->
                     /\ c_file' = CodegenCalls(c_file, c_indent, e.code)
                     /\ tmp_id' = e.ret
                     /\ calls' = Append(calls,
                            [op |-> op, tmp_id |-> tmp_id, args |-> r.args, ret |-> e.ret,
                             at |-> ti - 1, line0 |-> Len(c_file),
                             nlines |-> Len(c_file') - Len(c_file)])
                     /\ UNCHANGED <<pc, raised>>
    /\ UNCHANGED <<mode, counters, hashVars, equation, counter, tokens, ti, value, c_indent>>

\* lines 361-377: one turn of the while loop, the top of the stack being an operator
Code_WhileOp ==
    /\ mode = "code" /\ pc = "while"
    /\ stack # <<>> /\ Last(stack) \in DOMAIN ops
    /\ LET op == Last(stack)
           r == PopOperands(Front(stack), ops[op], <<>>, operand, counters)
           e == ops_callback(op, tmp_id, r.args)
       IN  /\ stack' = IF r.status = "ok" THEN Append(r.stack, "tmp" \o Str(e.ret - 1))
                       ELSE r.stack
           /\ operand' = r.operand
           /\ CASE r.status = "IndexError" ->
                     /\ Raise(IndexError(366))
                     /\ UNCHANGED <<tmp_id, calls, c_file>>
                [] r.status = "unresolved" ->
                     /\ Raise(Exception(code_unresolved_msg(r.operand[1]), 370))
                     /\ UNCHANGED <<tmp_id, calls, c_file>>
                [] r.status = "ok" ->
                     /\ c_file' = CodegenCalls(c_file, c_indent, e.code)
                     /\ tmp_id' = e.ret
                     /\ calls' = Append(calls,
                            [op |-> op, tmp_id |-> tmp_id, args |-> r.args, ret |-> e.ret,
                             at |-> ti - 1, line0 |-> Len(c_file),
                             nlines |-> Len(c_file') - Len(c_file)])
                     /\ UNCHANGED <<pc, raised>>
    /\ UNCHANGED <<mode, counters, hashVars, equation, counter, tokens, ti, value, c_indent>>

\* line 361: the while loop ends
Code_WhileExit ==
    /\ mode = "code" /\ pc = "while"
    /\ ~(stack # <<>> /\ Last(stack) \in DOMAIN ops)
    /\ pc' = "for"
    /\ UNCHANGED <<mode, counters, hashVars, rpnVars, raised, sinkVars>>

code_spurious_msg ==
    "Spurious empty rpn code for " \o SetXml.name \o " :: " \o counters[counter].name
        \o ".\nThis is probably due to some unhandled RPN function, in the equation \""
        \o equation \o "\""

\* Code_Finish taking the top of any stack that is not empty
Code_Finish_top ==
    /\ mode = "code" /\ pc = "for"
    /\ ti > Len(tokens)
    /\ IF Len(stack) = 0
       THEN /\ Raise(Exception(code_spurious_msg, 380))
            /\ UNCHANGED <<value, c_file>>
       ELSE IF Char(Last(stack), 1) = "$" /\ resolve_variable(Last(stack), counters) = None
       THEN /\ Raise([type |-> "NameError", msg |-> "name 'expression' is not defined",
                    line |-> 389])
            /\ UNCHANGED <<value, c_file>>
       ELSE LET v == IF Char(Last(stack), 1) = "$"
                     THEN resolve_variable(Last(stack), counters)[1]
                     ELSE Last(stack)
            IN  /\ c_file' = CodegenCall(c_file, c_indent, "\nreturn " \o v \o ";")
                /\ value' = Some(v)
                /\ pc' = "done"
                /\ UNCHANGED raised
    /\ UNCHANGED <<mode, counters, hashVars, equation, counter, tokens, ti, stack, operand,
                   tmp_id, calls, c_indent>>

\* lines 379-392: the tokens are used up.  Line 389 builds its message from
\* the names expression and counter_name, which this function does not have:
\* evaluating it raises NameError.
Code_Finish ==
    /\ mode = "code" /\ pc = "for"
    /\ ti > Len(tokens)
    /\ IF Len(stack) # 1
       THEN /\ Raise(Exception(code_spurious_msg, 380))
            /\ UNCHANGED <<value, c_file>>
       ELSE IF Char(Last(stack), 1) = "$" /\ resolve_variable(Last(stack), counters) = None
       THEN /\ Raise([type |-> "NameError", msg |-> "name 'expression' is not defined",
                    line |-> 389])
            /\ UNCHANGED <<value, c_file>>
       ELSE LET v == IF Char(Last(stack), 1) = "$"
                     THEN resolve_variable(Last(stack), counters)[1]
                     ELSE Last(stack)
            IN  /\ c_file' = CodegenCall(c_file, c_indent, "\nreturn " \o v \o ";")
                /\ value' = Some(v)
                /\ pc' = "done"
                /\ UNCHANGED raised
    /\ UNCHANGED <<mode, counters, hashVars, equation, counter, tokens, ti, stack, operand,
                   tmp_id, calls, c_indent>>

NextCode == Code_Call \/ Code_For \/ Code_WhileOp \/ Code_WhileExit \/ Code_Finish

SpecCode == InitCode /\ [][NextCode]_vars

(* ----------- Gen.output_availability / splice_rpn_expression --------- *)

\* line 433 and lines 395-396: output_availability calls the splicer
Avail_Call ==
    /\ mode = "avail" /\ pc = "idle"
    /\ tokens' = Split(equation)
    /\ stack' = <<>>
    /\ ti' = 1
    /\ pc' = "for"
    /\ UNCHANGED <<mode, counters, hashVars, equation, counter, operand, tmp_id, calls, value,
                   raised, sinkVars>>

\* lines 398-399: the next token is pushed
Splice_For ==
    /\ mode = "avail" /\ pc = "for"
    /\ ti <= Len(tokens)
    /\ stack' = Append(stack, tokens[ti])
    /\ ti' = ti + 1
    /\ pc' = "while"
    /\ UNCHANGED <<mode, counters, hashVars, equation, counter, tokens, operand, tmp_id, calls,
                   value, raised, sinkVars>>

splice_unresolved_msg(name) ==
    "Failed to resolve variable " \o name \o " in expression " \o equation \o " for "
        \o SetXml.name \o " :: " \o counters[counter].name

\* lines 400-415: one turn of the while loop, the top of the stack being an operator
Splice_WhileOp ==
    /\ mode = "avail" /\ pc = "while"
    /\ stack # <<>> /\ Last(stack) \in DOMAIN exp_ops
    /\ LET op == Last(stack)
           r == PopOperands(Front(stack), exp_ops[op], <<>>, operand, counters)
           subexp == exp_ops_callback(op, r.args)
       IN  /\ stack' = IF r.status = "ok" THEN Append(r.stack, subexp) ELSE r.stack
           /\ operand' = r.operand
           /\ CASE r.status = "IndexError" ->
                     /\ Raise(IndexError(405))
                     /\ UNCHANGED calls
                [] r.status = "unresolved" ->
                     /\ Raise(Exception(splice_unresolved_msg(r.operand[1]), 409))
                     /\ UNCHANGED calls
                [] r.status = "ok" ->
                     /\ calls' = Append(calls,
                            [op |-> op, tmp_id |-> tmp_id, args |-> r.args, ret |-> subexp,
                             at |-> ti - 1, line0 |-> Len(c_file), nlines |-> 0])
                     /\ UNCHANGED <<pc, raised>>
    /\ UNCHANGED <<mode, counters, hashVars, equation, counter, tokens, ti, tmp_id, value,
                   sinkVars>>

\* line 400: the while loop ends
Splice_WhileExit ==
    /\ mode = "avail" /\ pc = "while"
    /\ ~(stack # <<>> /\ Last(stack) \in DOMAIN exp_ops)
    /\ pc' = "for"
    /\ UNCHANGED <<mode, counters, hashVars, rpnVars, raised, sinkVars>>

splice_spurious_msg ==
    "Spurious empty rpn expression for " \o SetXml.name \o " :: " \o counters[counter].name
        \o ".\nThis is probably due to some unhandled RPN operation, in the expression \""
        \o equation \o "\""

\* lines 417-430: the tokens are used up; the splicer returns its value
Splice_Finish ==
    /\ mode = "avail" /\ pc = "for"
    /\ ti > Len(tokens)
    /\ IF Len(stack) # 1
       THEN /\ Raise(Exception(splice_spurious_msg, 418))
            /\ UNCHANGED value
       ELSE IF Char(Last(stack), 1) = "$" /\ resolve_variable(Last(stack), counters) = None
       THEN /\ Raise(Exception(splice_unresolved_msg(Last(stack)), 427))
            /\ UNCHANGED value
       ELSE /\ value' = Some(IF Char(Last(stack), 1) = "$"
                             THEN resolve_variable(Last(stack), counters)[1]
                             ELSE Last(stack))
            /\ pc' = "spliced"
            /\ UNCHANGED raised
    /\ UNCHANGED <<mode, counters, hashVars, equation, counter, tokens, ti, stack, operand,
                   tmp_id, calls, sinkVars>>

\* availability_lines keeping the whole expression on the line of the if
availability_lines_joined(expression, ind) ==
    << [code |-> "if (" \o expression \o ") {", indent |-> ind] >>

\* availability_lines without the connective at the end of the lines it breaks
availability_lines_unjoined(expression, ind) ==
    LET lines == SplitOn(expression, " && ")
        n_lines == Len(lines)
    IN  IF n_lines = 1
        THEN << [code |-> "if (" \o lines[1] \o ") {", indent |-> ind] >>
        ELSE << [code |-> "if (" \o lines[1], indent |-> ind] >>
             \o [ i \in 1..(n_lines - 2) |-> [code |-> lines[i + 1], indent |-> ind + 4] ]
             \o << [code |-> lines[n_lines] \o ") {", indent |-> ind + 4] >>

\* lines 434-444 given the spliced expression: the code strings handed to the
\* sink, each with the indentation it is handed over at
availability_lines(expression, ind) ==
    LET lines == SplitOn(expression, " && ")
        n_lines == Len(lines)
    IN  IF n_lines = 1
        THEN << [code |-> "if (" \o lines[1] \o ") {", indent |-> ind] >>
        ELSE << [code |-> "if (" \o lines[1] \o " &&", indent |-> ind] >>
             \o [ i \in 1..(n_lines - 2) |-> [code |-> lines[i + 1] \o " &&", indent |-> ind + 4] ]
             \o << [code |-> lines[n_lines] \o ") {", indent |-> ind + 4] >>

RECURSIVE CodegenCallsAt(_, _)
CodegenCallsAt(f, ls) ==
    IF ls = <<>> THEN f
    ELSE CodegenCallsAt(CodegenCall(f, Head(ls).indent, Head(ls).code), Tail(ls))

\* Avail_Emit leaving the sink indented after a guard of several lines
Avail_Emit_indented ==
    /\ mode = "avail" /\ pc = "spliced"
    /\ c_file' = CodegenCallsAt(c_file, availability_lines(value[1], c_indent))
    /\ c_indent' = IF Len(SplitOn(value[1], " && ")) = 1 THEN c_indent
                   ELSE c_indent + 4
    /\ pc' = "done"
    /\ UNCHANGED <<mode, counters, hashVars, rpnVars, raised>>

\* lines 434-444: the guard is written; indent(4) and outdent(4) cancel
Avail_Emit ==
    /\ mode = "avail" /\ pc = "spliced"
    /\ c_file' = CodegenCallsAt(c_file, availability_lines(value[1], c_indent))
    /\ c_indent' = IF Len(SplitOn(value[1], " && ")) = 1 THEN c_indent
                   ELSE (c_indent + 4) - 4
    /\ pc' = "done"
    /\ UNCHANGED <<mode, counters, hashVars, rpnVars, raised>>

NextAvail ==
    Avail_Call \/ Splice_For \/ Splice_WhileOp \/ Splice_WhileExit \/ Splice_Finish \/ Avail_Emit

SpecAvail == InitAvail /\ [][NextAvail]_vars

(* ---------------- Counter.compute_hashes / Set.__init__ --------------- *)
(* A frame is one compute_hashes call that got past line 65: self, whether  *)
(* it is mapping the value equation ("read") or the maximum equation       *)
(* ("max"), the tokens being mapped, the position k of replace_func's next *)
(* token and the tokens mapped so far.                                     *)

\* NewFrame hashing the counter's own symbol name along with its equation
NewFrame_named(c) ==
    [self |-> c, stage |-> "read",
     toks |-> <<counters[c].symbol_name>> \o Split(counters[c].equation), k |-> 1, acc |-> <<>>]

NewFrame(c) ==
    [self |-> c, stage |-> "read", toks |-> Split(counters[c].equation), k |-> 1, acc |-> <<>>]

Top == Last(frames)

\* Return leaving the sibling's token in place of its hash
Return_token(rh) ==
    IF Len(frames) = 1 THEN <<>>
    ELSE LET caller == frames[Len(frames) - 1]
         IN  SubSeq(frames, 1, Len(frames) - 2)
               \o << [caller EXCEPT !.acc = Append(@, caller.toks[caller.k]), !.k = @ + 1] >>

\* the frames once the innermost call has returned: its caller's replace_func
\* returns the callee's read_hash (line 73), which rh holds
Return(rh) ==
    IF Len(frames) = 1 THEN <<>>
    ELSE LET caller == frames[Len(frames) - 1]
         IN  SubSeq(frames, 1, Len(frames) - 2)
               \o << [caller EXCEPT !.acc = Append(@, rh[Top.self][1]), !.k = @ + 1] >>

\* SetInit_Call entering the body of compute_hashes whatever read_hash is
SetInit_Call_unmemoized ==
    /\ mode = "hash" /\ pc = "set_init"
    /\ frames = <<>>
    /\ ci <= Len(counters)
    /\ frames' = << NewFrame(ci) >>
    /\ ci' = ci + 1
    /\ UNCHANGED <<mode, pc, counters, read_hash, max_hash, prev_set, edited, rpnVars, raised,
                   sinkVars>>

\* lines 101-102 with lines 64-65: Set.__init__ calls compute_hashes of its next counter
SetInit_Call ==
    /\ mode = "hash" /\ pc = "set_init"
    /\ frames = <<>>
    /\ ci <= Len(counters)
    /\ frames' = IF read_hash[ci] # None THEN <<>> ELSE << NewFrame(ci) >>
    /\ ci' = ci + 1
    /\ UNCHANGED <<mode, pc, counters, read_hash, max_hash, prev_set, edited, rpnVars, raised,
                   sinkVars>>

\* line 101: the loop is over, the Set is built
SetInit_Done ==
    /\ mode = "hash" /\ pc = "set_init"
    /\ frames = <<>>
    /\ ci > Len(counters)
    /\ pc' = "done"
    /\ UNCHANGED <<mode, counters, hashVars, rpnVars, raised, sinkVars>>

\* lines 68-71: replace_func returns the token itself
Hash_TokenKept ==
    /\ mode = "hash" /\ pc = "set_init"
    /\ frames # <<>> /\ Top.k <= Len(Top.toks)
    /\ LET token == Top.toks[Top.k]
       IN  /\ Char(token, 1) # "$" \/ token \notin counter_vars_keys(counters)
           /\ frames' = [frames EXCEPT ![Len(frames)] =
                            [@ EXCEPT !.acc = Append(@, token), !.k = @ + 1]]
    /\ UNCHANGED <<mode, pc, counters, read_hash, max_hash, ci, prev_set, edited, rpnVars,
                   raised, sinkVars>>

RecursionError ==
    [type |-> "RecursionError", msg |-> "maximum recursion depth exceeded", line |-> 72]

\* lines 72-73 with lines 64-65: replace_func calls compute_hashes of the sibling
\* the token names; a sibling whose read_hash is set returns at once
Hash_TokenSibling ==
    /\ mode = "hash" /\ pc = "set_init"
    /\ frames # <<>> /\ Top.k <= Len(Top.toks)
    /\ LET token == Top.toks[Top.k]
           sibling == counter_vars(counters, token)
       IN  /\ Char(token, 1) = "$" /\ token \in counter_vars_keys(counters)
           /\ IF read_hash[sibling] # None
              THEN /\ frames' = [frames EXCEPT ![Len(frames)] =
                                   [@ EXCEPT !.acc = Append(@, read_hash[sibling][1]),
                                             !.k = @ + 1]]
                   /\ UNCHANGED <<pc, raised>>
              ELSE IF Len(frames) >= MaxDepth
              THEN /\ Raise(RecursionError)
                   /\ UNCHANGED frames
              ELSE /\ frames' = Append(frames, NewFrame(sibling))
                   /\ UNCHANGED <<pc, raised>>
    /\ UNCHANGED <<mode, counters, read_hash, max_hash, ci, prev_set, edited, rpnVars,
                   sinkVars>>

\* Hash_ReadDone returning without looking at the maximum equation
Hash_ReadDone_only ==
    /\ mode = "hash" /\ pc = "set_init"
    /\ frames # <<>> /\ Top.stage = "read" /\ Top.k > Len(Top.toks)
    /\ read_hash' = [read_hash EXCEPT ![Top.self] = Some(Join(" ", Top.acc))]
    /\ frames' = Return(read_hash')
    /\ UNCHANGED <<mode, pc, counters, max_hash, ci, prev_set, edited, rpnVars, raised,
                   sinkVars>>

\* lines 76 and 78-79: read_hash is assigned; the maximum equation, if any, is next
Hash_ReadDone ==
    /\ mode = "hash" /\ pc = "set_init"
    /\ frames # <<>> /\ Top.stage = "read" /\ Top.k > Len(Top.toks)
    /\ read_hash' = [read_hash EXCEPT ![Top.self] = Some(Join(" ", Top.acc))]
    /\ LET max_eq == counters[Top.self].max_equation
       IN  IF max_eq # None /\ max_eq[1] # ""
           THEN frames' = [frames EXCEPT ![Len(frames)] =
                              [@ EXCEPT !.stage = "max", !.toks = Split(max_eq[1]),
                                        !.k = 1, !.acc = <<>>]]
           ELSE frames' = Return(read_hash')
    /\ UNCHANGED <<mode, pc, counters, max_hash, ci, prev_set, edited, rpnVars, raised,
                   sinkVars>>

\* line 80: max_hash is assigned and the call returns
Hash_MaxDone ==
    /\ mode = "hash" /\ pc = "set_init"
    /\ frames # <<>> /\ Top.stage = "max" /\ Top.k > Len(Top.toks)
    /\ max_hash' = [max_hash EXCEPT ![Top.self] = Some(Join(" ", Top.acc))]
    /\ frames' = Return(read_hash)
    /\ UNCHANGED <<mode, pc, counters, read_hash, ci, prev_set, edited, rpnVars, raised,
                   sinkVars>>

\* The catalog with one literal token of one equation replaced by another
\* literal, and the generator run again on it: new Counter objects, no hashes.
Regenerate ==
    /\ mode = "hash" /\ pc = "done"
    /\ edited = 0
    /\ \E c \in 1..Len(counters) :
         LET toks == Split(counters[c].equation)
         IN  \E p \in 1..Len(toks), l \in Literals :
               /\ AllDigits(toks[p])
               /\ l # toks[p]
               /\ counters' = [counters EXCEPT ![c].equation =
                                  Join(" ", [toks EXCEPT ![p] = l])]
               /\ edited' = c
    /\ prev_set' = [counters |-> counters, read_hash |-> read_hash]
    /\ read_hash' = NoHashes(counters)
    /\ max_hash' = NoHashes(counters)
    /\ frames' = <<>>
    /\ ci' = 1
    /\ pc' = "set_init"
    /\ UNCHANGED <<mode, rpnVars, raised, sinkVars>>

\* Set construction alone
NextSetInit ==
    \/ SetInit_Call \/ SetInit_Done
    \/ Hash_TokenKept \/ Hash_TokenSibling \/ Hash_ReadDone \/ Hash_MaxDone

NextHash == NextSetInit \/ Regenerate

SpecHash == InitHash /\ [][NextHash]_vars

(* ------------------------ Gen.resolve_variable ------------------------ *)

\* lines 336-350: the call returns; value is what it returned
Resolve_Call ==
    /\ mode = "resolve" /\ pc = "idle"
    /\ value' = resolve_variable(equation, counters)
    /\ pc' = "done"
    /\ UNCHANGED <<mode, counters, hashVars, equation, counter, tokens, ti, stack, operand,
                   tmp_id, calls, raised, sinkVars>>

NextResolve == Resolve_Call

SpecResolve == InitResolve /\ [][NextResolve]_vars

(* ----------------------- Registry.chipset_name ------------------------ *)
(* oa_guid_registry.py.  The assert statement is executed: __debug__ is    *)
(* true, as it is unless the interpreter is started with -O.               *)

\* chipset_name returning whatever it is given
chipset_name_any(name) == Some(name)

\* lines 87-109: <<the value returned>>, or None when assert 0 is reached
chipset_name(name) ==
    IF \E i \in 1..Len(known_chipsets) : known_chipsets[i] = name
    THEN Some(name)
    ELSE None

AssertionError == [type |-> "AssertionError", msg |-> "", line |-> 109]

\* lines 87-109: the call returns or raises
Registry_Call ==
    /\ mode = "registry" /\ pc = "idle"
    /\ IF chipset_name(equation) # None
       THEN /\ value' = chipset_name(equation)
            /\ pc' = "done"
            /\ UNCHANGED raised
       ELSE /\ Raise(AssertionError)
            /\ UNCHANGED value
    /\ UNCHANGED <<mode, counters, hashVars, equation, counter, tokens, ti, stack, operand,
                   tmp_id, calls, sinkVars>>

NextRegistry == Registry_Call

SpecRegistry == InitRegistry /\ [][NextRegistry]_vars

\* Set construction, every step of which is taken in the end: the interpreter
\* runs the program on.
SpecSetInit == InitHash /\ [][NextSetInit]_vars /\ WF_vars(NextSetInit)

\* Set construction on the Sets whose counters bear names the resolver also knows.
SpecHashColliding == InitHashColliding /\ [][NextSetInit]_vars

(* ----------------------------- everything ----------------------------- *)

Next == NextCode \/ NextAvail \/ NextHash \/ NextResolve \/ NextRegistry

Spec == Init /\ [][Next]_vars

\* Both compilers, for what is said of both.
SpecRpn == (InitCode \/ InitAvail) /\ [][NextCode \/ NextAvail]_vars

(* ============================= properties ============================= *)

\* The text a token stands for in the generated code.
Resolved(t) == IF Char(t, 1) = "$" THEN resolve_variable(t, counters)[1] ELSE t

\* The run has ended, normally or by an exception.
Ended == pc \in {"done", "raised"}

(* -------------------------------- C1 ---------------------------------- *)

InfixSymbol ==
    "FADD" :> "+" @@ "FMUL" :> "*" @@ "FSUB" :> "-" @@ "UADD" :> "+" @@ "UMUL" :> "*" @@
    "USUB" :> "-" @@ "<<" :> "<<" @@ ">>" :> ">>" @@ "AND" :> "&" @@ "UGTE" :> ">=" @@
    "UGT" :> ">" @@ "ULTE" :> "<=" @@ "ULT" :> "<"

\* What the body of "A B OP" must assign, line by line, when x is the left
\* (first, dividend, domain) operand and y the right one.
ComputesText(op, x, y) ==
    CASE op \in DOMAIN InfixSymbol ->
           << " tmp0 = " \o x \o " " \o InfixSymbol[op] \o " " \o y \o ";" >>
      [] op \in {"FDIV", "UDIV"} ->
           << " tmp0 = " \o x \o ";", " tmp1 = " \o y \o ";", " tmp2 = tmp1 ? tmp0 / tmp1 : 0;" >>
      [] op = "FMAX" ->
           << " tmp0 = " \o x \o ";", " tmp1 = " \o y \o ";", " tmp2 = MAX(tmp0, tmp1);" >>
      [] op = "UMIN" ->
           << " tmp0 = MIN(" \o x \o ", " \o y \o ");" >>
      [] op = "READ" ->
           << " tmp0 = accumulator[metric_set->" \o Lower(x) \o "_offset + " \o y \o "];" >>

BinaryRun ==
    mode = "code" /\ pc = "done" /\ Len(tokens) = 3 /\ tokens[3] \in DOMAIN ops

\* The statements between the comment line and the blank line before the return.
Body == SubSeq(c_file, 2, Len(c_file) - 2)

\* C1: compiling "A B OP" hands the strategy near = B and far = A and emits
\* code that computes A <op> B, for every operator of the statement table;
\* with A and B different, no line computes B <op> A.
C1_OperandOrder ==
    BinaryRun =>
        LET far == Resolved(tokens[1])
            near == Resolved(tokens[2])
            want == ComputesText(tokens[3], far, near)
            swapped == ComputesText(tokens[3], near, far)
        IN  /\ Len(calls) = 1
            /\ calls[1].args = <<near, far>>
            /\ Len(Body) = Len(want)
            /\ \A k \in 1..Len(want) : Contains(Body[k], want[k])
            /\ far # near /\ Lower(far) # Lower(near) =>
                 \E k \in 1..Len(want) : ~Contains(Body[k], swapped[k])

C1_Witness == BinaryRun /\ tokens = <<"$A", "1", "USUB">>

(* -------------------------------- C2 ---------------------------------- *)

DivideCalls == { k \in 1..Len(calls) : calls[k].op \in {"FDIV", "UDIV"} }

\* C2: FDIV and UDIV, entered with next free id t, emit exactly
\* tmp(t) = far; tmp(t+1) = near; tmp(t+2) = tmp(t+1) ? tmp(t) / tmp(t+1) : 0;
\* and return t+3: the divisor is a temporary, and a zero divisor gives 0.
C2_GuardedDivide ==
    mode = "code" =>
        \A k \in DivideCalls :
            LET c == calls[k]
                t == c.tmp_id
                ty == IF c.op = "FDIV" THEN "double" ELSE "uint64_t"
                T(n) == "tmp" \o Str(n)
                At(n) == c_file[c.line0 + n]
            IN  /\ c.nlines = 3
                /\ c.ret = t + 3
                /\ At(1) = Spaces(c_indent) \o ty \o " " \o T(t) \o " = " \o c.args[2] \o ";"
                /\ At(2) = Spaces(c_indent) \o ty \o " " \o T(t + 1) \o " = " \o c.args[1] \o ";"
                /\ At(3) = Spaces(c_indent) \o ty \o " " \o T(t + 2) \o " = " \o T(t + 1)
                             \o " ? " \o T(t) \o " / " \o T(t + 1) \o " : 0;"

C2_Witness ==
    /\ mode = "code" /\ pc = "done"
    /\ \E k \in DivideCalls : calls[k].tmp_id > 0 /\ calls[k].args[1] # calls[k].args[2]

(* -------------------------------- C3 ---------------------------------- *)

Unresolved(t) == Char(t, 1) = "$" /\ resolve_variable(t, counters) = None

ResolutionErrorFor(t) ==
    /\ pc = "raised"
    /\ raised.type = "Exception"
    /\ Contains(raised.msg, "Failed to resolve variable " \o t)
    /\ Contains(raised.msg, equation)
    /\ Contains(raised.msg, SetXml.name)
    /\ Contains(raised.msg, counters[counter].name)

\* The loop over the tokens ran to its end (no exception inside it).
LoopCompleted ==
    \/ pc \in {"done", "spliced"}
    \/ pc = "raised" /\ raised.line \notin {366, 370, 405, 409}

\* C3: in both compilers an unresolved $-token popped as an operand, or left
\* as the single stack entry at completion, aborts with a resolution error that
\* reports the token, the equation, the Set name and the Counter name.
C3_UnresolvedReported ==
    /\ operand # None /\ Unresolved(operand[1]) => ResolutionErrorFor(operand[1])
    /\ LoopCompleted /\ Len(stack) = 1 /\ Unresolved(stack[1]) => ResolutionErrorFor(stack[1])

(* -------------------------------- C4 ---------------------------------- *)

\* All tokens are consumed and the stack does not hold exactly one entry.
SpuriousDepth ==
    pc = "for" /\ ti > Len(tokens) /\ Len(stack) # 1

SpuriousDiagnostic ==
    /\ pc = "raised"
    /\ raised.type = "Exception"
    /\ Contains(raised.msg, "Spurious empty")
    /\ Contains(raised.msg, SetXml.name)
    /\ Contains(raised.msg, counters[counter].name)
    /\ Contains(raised.msg, "\"" \o equation \o "\"")

HasReturn == \E i \in 1..Len(c_file) : Contains(c_file[i], "return ")

\* C4: in both compilers, when every token has been consumed and the stack
\* depth is not 1, the next step raises the 'Spurious empty' diagnostic naming
\* the Set, the Counter and the equation; nothing is written, and no result or
\* return statement is ever produced for such a run.
C4_SpuriousDiagnosed ==
    [][SpuriousDepth => (SpuriousDiagnostic /\ value = None /\ ~HasReturn)' /\ c_file' = c_file]_vars

C4_Witness ==
    /\ SpuriousDiagnostic
    /\ Len(stack) = 2
    /\ mode = "code"

(* -------------------------------- C5 ---------------------------------- *)

IsOperand(t) == t \notin DOMAIN ops /\ ~Unresolved(t)

\* "A B OP OP": the second operator finds fewer operands than its arity.
Unbalanced ==
    /\ mode = "code"
    /\ Len(tokens) = 4
    /\ IsOperand(tokens[1]) /\ IsOperand(tokens[2])
    /\ tokens[3] \in DOMAIN ops /\ tokens[4] \in DOMAIN ops

\* C5: an equation of the shape A B OP OP ends in the depth ('Spurious
\* empty') diagnostic of C4.
C5_UnbalancedDiagnosed ==
    Unbalanced /\ Ended => SpuriousDiagnostic

(* -------------------------------- C6 ---------------------------------- *)

SingleHwVar ==
    mode = "code" /\ Len(tokens) = 1 /\ tokens[1] \in DOMAIN hw_vars_mapping

\* C6: an equation that is one token naming a hardware variable of the table
\* emits no temporary: no strategy is called, the run does not fail, and the
\* output is the comment line, a blank line and 'return <accessor>;'.
C6_SingleHwVar ==
    SingleHwVar =>
        /\ calls = <<>>
        /\ tmp_id = 0
        /\ pc # "raised"
        /\ \A i \in 1..Len(c_file) : ~Contains(c_file[i], "tmp")
        /\ pc = "done" =>
             /\ value = Some(hw_vars_mapping[tokens[1]])
             /\ c_file = << Spaces(c_indent) \o "/* RPN equation: " \o equation \o " */",
                            "",
                            Spaces(c_indent) \o "return " \o hw_vars_mapping[tokens[1]] \o ";" >>

C6_Witness ==
    SingleHwVar /\ pc = "done" /\ tokens = <<"$EuCoresTotalCount">> /\ c_indent = 4

(* -------------------------------- C7 ---------------------------------- *)

\* A composite expression is one of several tokens.
Composite(x) == Len(Split(x)) > 1

Wrapped(x) == IF Composite(x) THEN "(" \o x \o ")" ELSE x

SpliceSymbol ==
    "AND" :> "&" @@ "&&" :> "&&" @@ "UGTE" :> ">=" @@ "UGT" :> ">" @@ "ULTE" :> "<=" @@
    "ULT" :> "<" @@ "<<" :> "<<" @@ ">>" :> ">>" @@ "UMUL" :> "*"

AndOfVariables ==
    /\ mode = "avail" /\ pc \in {"spliced", "done"}
    /\ Len(tokens) = 3 /\ tokens[3] = "AND"
    /\ Char(tokens[1], 1) = "$" /\ Char(tokens[2], 1) = "$"

\* C7: every splice strategy embeds an operand in parentheses if and only if
\* the operand is composite; '$A $B AND' gives '(<A>) & (<B>)' when both
\* resolve to composite text and '<A> & <B>', free of parentheses, when both
\* resolve to single tokens.
C7_Parenthesized ==
    mode = "avail" =>
        /\ \A k \in 1..Len(calls) :
             LET c == calls[k]
                 inner == Wrapped(c.args[2]) \o " " \o SpliceSymbol[c.op] \o " " \o Wrapped(c.args[1])
             IN  c.ret = IF c.op \in {"<<", ">>"} THEN "(" \o inner \o ")" ELSE inner
        /\ AndOfVariables =>
             LET a == Resolved(tokens[1])
                 b == Resolved(tokens[2])
             IN  /\ Composite(a) /\ Composite(b) =>
                       value = Some("(" \o a \o ") & (" \o b \o ")")
                 /\ ~Composite(a) /\ ~Composite(b) =>
                       /\ value = Some(a \o " & " \o b)
                       /\ ~Contains(value[1], "(") /\ ~Contains(value[1], ")")

C7_Witness ==
    /\ AndOfVariables
    /\ tokens = <<"$A", "$B", "AND">>
    /\ Composite(Resolved("$A")) /\ Composite(Resolved("$B"))
    /\ value # None

(* -------------------------------- C8 ---------------------------------- *)

\* Where " && " occurs in e.
AndAt(e) == { i \in 1..Len(e) : i + 3 <= Len(e) /\ SubSeq(e, i, i + 3) = " && " }

\* How many parentheses are open before position i of e.
DepthAt(e, i) ==
    Cardinality({ j \in 1..(i - 1) : Char(e, j) = "(" })
      - Cardinality({ j \in 1..(i - 1) : Char(e, j) = ")" })

\* The number of terms the logical ANDs outside every parenthesis separate.
TopLevelTerms(e) == Cardinality({ i \in AndAt(e) : DepthAt(e, i) = 0 }) + 1

Guarded == mode = "avail" /\ pc = "done"

NoSiblingRefs(cs, i) ==
    \A t \in { Split(cs[i].equation)[k] : k \in 1..Len(Split(cs[i].equation)) } :
        t \notin counter_vars_keys(cs)

Hashed == mode = "hash" /\ pc = "done"

\* C9: once the hashes are computed, two counters with the same equation text
\* and no sibling reference have the same read_hash; after one literal of one
\* of the two equations is changed, that counter's read_hash differs from what
\* it was and the other counter's read_hash is what it was.
C9_IdenticalEquations ==
    Hashed =>
        /\ \A i, j \in 1..Len(counters) :
             counters[i].equation = counters[j].equation /\ NoSiblingRefs(counters, i) =>
                 read_hash[i] # None /\ read_hash[i] = read_hash[j]
        /\ edited # 0 =>
             \A j \in 1..Len(counters) \ {edited} :
                 /\ prev_set.counters[edited].equation = prev_set.counters[j].equation
                 /\ NoSiblingRefs(prev_set.counters, edited)
                 => /\ read_hash[edited] # prev_set.read_hash[edited]
                    /\ read_hash[j] = prev_set.read_hash[j]
                    /\ read_hash[j] # read_hash[edited]

C9_Witness ==
    /\ Hashed
    /\ edited = 1
    /\ prev_set.counters[1].equation = "1 2 UADD"
    /\ prev_set.counters[2].equation = "1 2 UADD"
    /\ prev_set.read_hash[1] = prev_set.read_hash[2]
    /\ counters[1].equation = "1 1 UADD"

(* -------------------------------- C10 --------------------------------- *)

\* The tokens of eq with every token naming a sibling counter replaced by
\* that sibling's read_hash.
Substituted(eq) ==
    [ k \in 1..Len(Split(eq)) |->
        LET t == Split(eq)[k]
        IN  IF Char(t, 1) = "$" /\ \E i \in 1..Len(counters) : "$" \o counters[i].symbol_name = t
            THEN read_hash[counter_vars(counters, t)][1]
            ELSE t ]

\* C10: after compute_hashes, read_hash is the equation's tokens, sibling
\* tokens replaced by the sibling's read_hash and all others kept, joined by
\* single spaces; max_hash is the same of the maximum equation, if there is
\* one; so counters whose substituted tokens agree have equal hashes whatever
\* their symbol names.
C10_HashIsSubstitution ==
    Hashed =>
        /\ \A i \in 1..Len(counters) :
             /\ read_hash[i] = Some(Join(" ", Substituted(counters[i].equation)))
             /\ max_hash[i] = IF counters[i].max_equation = None THEN None
                              ELSE Some(Join(" ", Substituted(counters[i].max_equation[1])))
        /\ \A i, j \in 1..Len(counters) :
             Substituted(counters[i].equation) = Substituted(counters[j].equation) =>
                 read_hash[i] = read_hash[j]

C10_Witness ==
    /\ Hashed
    /\ counters[1].equation = "1 2 UADD"
    /\ counters[2].equation = "$A 2 UMUL"
    /\ counters[2].max_equation = Some("$A $B UADD")
    /\ read_hash[2] = Some("1 2 UADD 2 UMUL")
    /\ max_hash[2] = Some("1 2 UADD 1 2 UADD 2 UMUL UADD")

(* -------------------------------- C11 --------------------------------- *)

EndsWith(t, suffix) ==
    Len(suffix) <= Len(t) /\ SubSeq(t, Len(t) - Len(suffix) + 1, Len(t)) = suffix

\* The runs of digits a token may carry as an index.
IndexTexts == { Str(n) : n \in 0..13 } \cup {"01"}

\* The accessors of the pattern families a token ends in, with its indices.
SliceAccessors(t) ==
    { "intel_xe_perf_devinfo_slice_available(&perf->devinfo, " \o n \o ")" :
        n \in { n \in IndexTexts : EndsWith(t, "$GtSlice" \o n) } }

SubsliceAccessors(t, unit) ==
    { "intel_xe_perf_devinfo_subslice_available(&perf->devinfo, " \o p[1] \o ", " \o p[2] \o ")" :
        p \in { p \in IndexTexts \X IndexTexts : EndsWith(t, "$GtSlice" \o p[1] \o unit \o p[2]) } }

PatternAccessors(t) ==
    SliceAccessors(t) \cup SubsliceAccessors(t, "DualSubslice") \cup SubsliceAccessors(t, "XeCore")

Siblings(t) == { i \in 1..Len(counters) : "$" \o counters[i].symbol_name = t }

ResolverReturned == mode = "resolve" /\ pc = "done"

\* What resolve_variable returned for the token, by the order of the lookup.
ResolvedInOrder ==
    ResolverReturned =>
        LET t == equation
        IN  IF t \in DOMAIN hw_vars_mapping
            THEN value = Some(hw_vars_mapping[t])
            ELSE IF Siblings(t) # {}
            THEN \E i \in Siblings(t) :
                    value = Some(read_sym(counters[i]) \o "(perf, metric_set, accumulator)")
            ELSE IF PatternAccessors(t) # {}
            THEN value # None /\ value[1] \in PatternAccessors(t)
            ELSE value = None

\* C11: resolve_variable returns the table's accessor for a key of the
\* Hardware Variable Table, else the sibling's read call for a key of
\* counter_vars, else the accessor of the matching pattern family with the
\* captured indices, else None; the result is fixed by the token and the
\* Set's counters, and the call changes nothing but its result.
C11_ResolverOrder ==
    /\ []ResolvedInOrder
    /\ [][mode = "resolve" =>
            UNCHANGED <<mode, counters, hashVars, equation, counter, tokens, ti, stack,
                        operand, tmp_id, calls, raised, sinkVars>>]_vars

\* A counter named like a table key and like a pattern variable: the table wins.
C11_Witness ==
    /\ ResolverReturned
    /\ equation = "$EuCoresTotalCount"
    /\ Siblings(equation) # {}
    /\ value = Some(hw_vars_mapping[equation])

(* -------------------------------- C12 --------------------------------- *)

\* Set.__init__ is about to call compute_hashes of a counter already hashed.
OuterCallOfHashed ==
    /\ mode = "hash" /\ pc = "set_init"
    /\ frames = <<>> /\ ci <= Len(counters)
    /\ read_hash[ci] # None

\* replace_func is about to call compute_hashes of a sibling already hashed.
InnerCallOfHashed ==
    /\ mode = "hash" /\ pc = "set_init"
    /\ frames # <<>> /\ Top.k <= Len(Top.toks)
    /\ Siblings(Top.toks[Top.k]) # {}
    /\ \A i \in Siblings(Top.toks[Top.k]) : read_hash[i] # None

\* C12: compute_hashes called on a counter whose hash is computed returns at
\* once: no call is nested in it (the call stack is as deep after the step as
\* before) and no counter's read_hash or max_hash changes.
C12_Memoized ==
    [][(OuterCallOfHashed \/ InnerCallOfHashed) =>
          /\ Len(frames') = Len(frames)
          /\ read_hash' = read_hash
          /\ max_hash' = max_hash]_vars

\* The loop of Set.__init__ has just passed a counter that a sibling's
\* equation had caused to be hashed before.
C12_Witness ==
    /\ mode = "hash" /\ pc = "set_init"
    /\ counters[1].equation = "$B"
    /\ frames = <<>> /\ ci = 3
    /\ read_hash[1] # None /\ read_hash[2] # None

(* -------------------------------- C13 --------------------------------- *)

TokensOf(eq) == LET toks == Split(eq) IN { toks[k] : k \in 1..Len(toks) }

\* The counters the value equation of counter i refers to.
RefersTo(cs, i) == { j \in 1..Len(cs) : "$" \o cs[j].symbol_name \in TokensOf(cs[i].equation) }

\* The counters reached from those of S by at most n further references.
RECURSIVE ReachedFrom(_, _, _)
ReachedFrom(cs, S, n) ==
    IF n = 0 THEN S
    ELSE ReachedFrom(cs, S \cup UNION { RefersTo(cs, j) : j \in S }, n - 1)

Cyclic(cs) == \E i \in 1..Len(cs) : i \in ReachedFrom(cs, RefersTo(cs, i), Len(cs))

\* C13: when the counters' references form a cycle, hash computation never
\* re-enters a counter that is in progress (the call stack holds no counter
\* twice) and, once it has failed, the failure is the distinct 'cyclic
\* counter reference' error.
C13_CycleDetected ==
    mode = "hash" /\ Cyclic(counters) =>
        /\ \A a, b \in 1..Len(frames) : frames[a].self = frames[b].self => a = b
        /\ pc = "raised" => Contains(Lower(raised.msg), "cyclic counter reference")

(* -------------------------------- C14 --------------------------------- *)

Known == { known_chipsets[i] : i \in 1..Len(known_chipsets) }

\* C14: chipset_name returns the identifier itself when it is one of the
\* known ones; for any other it fails by an assertion and returns nothing.
C14_ChipsetName ==
    mode = "registry" /\ pc # "idle" =>
        IF equation \in Known
        THEN pc = "done" /\ value = Some(equation) /\ raised = NoException
        ELSE pc = "raised" /\ raised.type = "AssertionError" /\ value = None

C14_Witness ==
    /\ mode = "registry" /\ pc = "raised"
    /\ equation = "hsw"
    /\ raised.type = "AssertionError"

(* -------------------------------- C15 --------------------------------- *)

Count(x, c) == Cardinality({ j \in 1..Len(x) : Char(x, j) = c })

\* How many more parentheses x opens than it closes.
Opens(x) == Count(x, "(") - Count(x, ")")

\* C15: the guard is cut only at the logical ANDs outside every parenthesis:
\* there is one line for each top-level term, and the term on each line is
\* balanced (the first line opens only the parenthesis of the if, the last
\* closes only that one).
C15_TopLevelSplit ==
    Guarded =>
        LET n == Len(c_file)
        IN  /\ n = TopLevelTerms(value[1])
            /\ \A k \in 1..n :
                 Opens(c_file[k]) = (IF k = 1 THEN 1 ELSE 0) - (IF k = n THEN 1 ELSE 0)

(* -------------------------------- C16 --------------------------------- *)

\* x without the spaces it begins with
LStrip(x) ==
    LET Inked == { j \in 1..Len(x) : Char(x, j) # " " }
    IN  IF Inked = {} THEN "" ELSE SubSeq(x, NthSmallest(Inked, 1), Len(x))

\* C16: the lines of the guard, indentation aside, joined by single spaces
\* are exactly 'if (' E ') {' for the spliced expression E.
C16_PureReformatting ==
    Guarded =>
        Join(" ", [ k \in 1..Len(c_file) |-> LStrip(c_file[k]) ]) = "if (" \o value[1] \o ") {"

C16_Witness ==
    /\ Guarded
    /\ equation = "1 2 && 3 && 4 &&"
    /\ Len(c_file) = 4
    /\ c_indent = 4

(* -------------------------------- C17 --------------------------------- *)

\* The k-th of the n terms " && " cuts e into.
Term(e, k) ==
    LET P == AndAt(e)
        n == Cardinality(P) + 1
        from == IF k = 1 THEN 1 ELSE NthSmallest(P, k - 1) + 4
        to == IF k = n THEN Len(e) ELSE NthSmallest(P, k) - 1
    IN  SubSeq(e, from, to)

LinesOfTerms ==
    Guarded =>
        LET e == value[1]
            n == Cardinality(AndAt(e)) + 1
        IN  /\ Len(c_file) = n
            /\ \A k \in 1..n :
                 c_file[k] = (IF k = 1 THEN Spaces(c_indent) \o "if (" ELSE Spaces(c_indent + 4))
                               \o Term(e, k)
                               \o (IF k = n THEN ") {" ELSE " &&")

\* C17: an expression of n terms is emitted as n lines in order, 'if (<term>) {'
\* alone for n = 1, else 'if (<term1> &&', the middle terms each followed by
\* ' &&' and the last followed by ') {'; the lines after the first are four
\* columns deeper, and the sink's indent is after the call what it was before.
C17_LinesAndIndent ==
    /\ []LinesOfTerms
    /\ [][mode = "avail" => c_indent' = c_indent]_vars

C17_Witness ==
    /\ Guarded
    /\ equation = "1 2 3 4 && && &&"
    /\ c_file = <<"    if (1 &&", "        (2 &&", "        (3 &&", "        4))) {">>
    /\ c_indent = 4

(* -------------------------------- C18 --------------------------------- *)

\* The innermost call is about to assign self.read_hash (line 76).
AssigningReadHash ==
    /\ mode = "hash" /\ pc = "set_init"
    /\ frames # <<>> /\ Top.stage = "read" /\ Top.k > Len(Top.toks)

\* The innermost call is about to assign self.max_hash (line 80).
AssigningMaxHash ==
    /\ mode = "hash" /\ pc = "set_init"
    /\ frames # <<>> /\ Top.stage = "max" /\ Top.k > Len(Top.toks)

\* C18: the hash slots are write-once: whenever read_hash or max_hash of a
\* counter is assigned, that slot has not been assigned before.
C18_WriteOnce ==
    /\ AssigningReadHash => read_hash[Top.self] = None
    /\ AssigningMaxHash => max_hash[Top.self] = None

(* -------------------------------- C19 --------------------------------- *)

\* The counters each counter refers to, in its value or its maximum equation.
References(cs) ==
    [ i \in 1..Len(cs) |->
        LET T == TokensOf(cs[i].equation)
                   \cup (IF cs[i].max_equation = None THEN {}
                         ELSE TokensOf(cs[i].max_equation[1]))
        IN  { j \in 1..Len(cs) : "$" \o cs[j].symbol_name \in T } ]

\* The counters reached from those of S by at most n further references of refs.
RECURSIVE Referenced(_, _, _)
Referenced(refs, S, n) ==
    IF n = 0 THEN S
    ELSE Referenced(refs, S \cup UNION { refs[j] : j \in S }, n - 1)

AcyclicReferences(refs) ==
    \A i \in DOMAIN refs : i \notin Referenced(refs, refs[i], Len(refs))

Acyclic(cs) == AcyclicReferences(References(cs))

Max(S) == CHOOSE x \in S : \A y \in S : y <= x

\* The number of counters on the longest chain of references from counter i.
RECURSIVE ChainIn(_, _)
ChainIn(refs, i) ==
    1 + Max({0} \cup { ChainIn(refs, j) : j \in refs[i] })

Chain(cs, i) == ChainIn(References(cs), i)

AcyclicHashing == mode = "hash" /\ Acyclic(counters)

BoundedAndComplete ==
    AcyclicHashing =>
        /\ pc # "raised"
        /\ frames # <<>> => Len(frames) <= Chain(counters, frames[1].self)
        /\ pc = "done" =>
             \A i \in 1..Len(counters) :
                 /\ read_hash[i] # None
                 /\ max_hash[i] # None <=> counters[i].max_equation # None

Assigns(line, n) == Contains(line, " tmp" \o Str(n) \o " = ")

\* The lines written so far that assign the temporary of id n.
AssignmentsOf(n) == { i \in 1..Len(c_file) : Assigns(c_file[i], n) }

ConsecutiveIds ==
    mode = "code" =>
        /\ \A k \in 1..Len(calls) :
             LET c == calls[k]
             IN  /\ c.tmp_id = (IF k = 1 THEN 0 ELSE calls[k - 1].ret)
                 /\ c.nlines \in {1, 3}
                 /\ c.ret = c.tmp_id + c.nlines
                 /\ \A n \in 1..c.nlines : Assigns(c_file[c.line0 + n], c.tmp_id + n - 1)
        /\ tmp_id = (IF calls = <<>> THEN 0 ELSE Last(calls).ret)
        /\ \A n \in 0..(tmp_id - 1) : Cardinality(AssignmentsOf(n)) = 1
        /\ AssignmentsOf(tmp_id) = {}

\* C20: in one run of the statement compiler the ids start at 0; a strategy
\* entered at the next free id t assigns t .. t+k-1, k being 1 or 3, one per
\* statement, and returns t+k; no id is assigned by two statements; the next
\* free id never goes down; and the name a strategy's call leaves on the
\* stack is that of the last temporary it assigned.
C20_TemporaryIds ==
    /\ []ConsecutiveIds
    /\ [][mode = "code" =>
            /\ tmp_id' >= tmp_id
            /\ calls' # calls =>
                 /\ tmp_id' = Last(calls').ret
                 /\ Last(stack') = "tmp" \o Str(tmp_id' - 1)
                 /\ Assigns(Last(c_file'), tmp_id' - 1)]_vars

C20_Witness ==
    /\ mode = "code" /\ pc = "done"
    /\ equation = "1 1 FDIV 1 UADD"
    /\ tmp_id = 4
    /\ value = Some("tmp3")

(* -------------------------------- C21 --------------------------------- *)

\* The statement compiler's loop has consumed every token of the equation:
\* the depth check of line 379 is next, or has been made.
CodeLoopCompleted ==
    /\ mode = "code"
    /\ \/ pc = "for" /\ ti > Len(tokens)
       \/ pc = "done"
       \/ pc = "raised" /\ raised.line \in {380, 389}

\* The depth check of line 379 has failed.
DepthCheckFailed == mode = "code" /\ pc = "raised" /\ raised.line = 380

\* C21 as stated: for every equation whose token loop runs to completion the
\* stack then holds at least one entry, so the depth check never fails on a
\* depth of zero.
C21_StackNeverEmpty ==
    CodeLoopCompleted => Len(stack) >= 1

\* C21: for every equation of at least one token whose token loop runs to
\* completion the stack then holds at least one entry, and the depth check
\* fails on such an equation only with a depth greater than one; an equation
\* without tokens completes with the empty stack.
C21_StackEmptyOnlyWithoutTokens ==
    /\ CodeLoopCompleted /\ tokens # <<>> => Len(stack) >= 1
    /\ CodeLoopCompleted /\ tokens = <<>> => stack = <<>>
    /\ DepthCheckFailed /\ tokens # <<>> => Len(stack) > 1

C21_Witness ==
    /\ DepthCheckFailed
    /\ calls # <<>>
    /\ Len(tokens) = 4
    /\ Len(stack) = 2

(* -------------------------------- C22 --------------------------------- *)

\* The operator table of the running compiler.
OperatorTable == IF mode = "code" THEN DOMAIN ops ELSE DOMAIN exp_ops

\* Positions of the equation's tokens that are operators of that table.
OperatorPositions == { i \in 1..Len(tokens) : tokens[i] \in OperatorTable }

\* The statement compiler has written its return statement, or the splicer
\* has returned its expression.
CompiledSuccessfully ==
    mode \in {"code", "avail"} /\ pc \in {"done", "spliced"}

\* Every operator token has one strategy invocation, the k-th invocation being
\* that of the k-th operator token from the left.
InvokedInTokenOrder ==
    /\ Len(calls) = Cardinality(OperatorPositions)
    /\ \A k \in 1..Len(calls) :
         /\ calls[k].at = NthSmallest(OperatorPositions, k)
         /\ calls[k].op = tokens[calls[k].at]

\* A step leaves the invocations made as they are, or makes one more, of a
\* token to the right of every token invoked before.
InvocationAdded ==
    \/ calls' = calls
    \/ /\ Len(calls') = Len(calls) + 1
       /\ Front(calls') = calls
       /\ \A k \in 1..Len(calls) : calls[k].at < Last(calls').at

\* C22: on every compilation that completes successfully, in either compiler,
\* each occurrence of a token of the compiler's operator table has triggered
\* exactly one invocation of that operator's strategy, and the invocations
\* were made one after the other in the left-to-right order of the operator
\* tokens; an invocation made is never undone or reordered.
C22_NoOperatorSkipped ==
    /\ [](CompiledSuccessfully => InvokedInTokenOrder)
    /\ [][(mode = "code" \/ mode = "avail") => InvocationAdded]_vars

C22_Witness ==
    /\ CompiledSuccessfully
    /\ mode = "avail"
    /\ Len(calls) = 2
    /\ calls[1].op # calls[2].op
    /\ calls[2].at = calls[1].at + 1

(* -------------------------------- C23 --------------------------------- *)

\* The statement compiler has aborted on an operand that does not resolve.
UnresolvedOperandAbort ==
    /\ mode = "code" /\ pc = "raised"
    /\ raised.type = "Exception" /\ raised.line = 370

\* Lines written by the strategy invocations made so far.
LinesOfCalls ==
    IF calls = <<>> THEN 0 ELSE Last(calls).line0 + Last(calls).nlines - 1

\* An operand that does not resolve aborts the run; the operator it was popped
\* for (the token pushed last) has no invocation, and the file holds the
\* comment line and the statements of the operators before it only.  A run
\* that aborted, for whatever reason, has no return statement.
FailedFast ==
    mode = "code" =>
        /\ operand # None /\ Unresolved(operand[1]) => UnresolvedOperandAbort
        /\ UnresolvedOperandAbort =>
             /\ tokens[ti - 1] \in DOMAIN ops
             /\ \A k \in 1..Len(calls) : calls[k].at < ti - 1
             /\ Len(c_file) = 1 + LinesOfCalls
        /\ pc = "raised" => ~HasReturn /\ value = None

\* The step that aborts writes nothing, invokes nothing and consumes no token.
AbortsWritingNothing ==
    pc # "raised" /\ pc' = "raised" =>
        /\ c_file' = c_file
        /\ calls' = calls
        /\ tmp_id' = tmp_id
        /\ ti' = ti

\* C23: in the statement compiler an operand that fails to resolve aborts the
\* run before its operator's strategy is invoked or emits a statement; after
\* an abort no later token is processed and nothing more is written; and a run
\* that aborts, on an unresolved symbol or an unbalanced equation, never has a
\* return statement.
C23_FailFast ==
    /\ []FailedFast
    /\ [][(mode = "code") => AbortsWritingNothing]_vars
    /\ [][(mode = "code" /\ pc = "raised") => UNCHANGED vars]_vars

C23_Witness ==
    /\ UnresolvedOperandAbort
    /\ operand = Some("$Unknown")
    /\ ti <= Len(tokens)
    /\ tokens[Len(tokens)] \in DOMAIN ops

(* -------------------------------- C24 --------------------------------- *)

IsIdentChar(c) ==
    \/ IsDigit(c)
    \/ c = "_"
    \/ LowerChar(c) # c
    \/ c \in {"a", "b", "c", "d", "e", "f", "g", "h", "i", "j", "k", "l", "m", "n", "o", "p",
              "q", "r", "s", "t", "u", "v", "w", "x", "y", "z"}

\* The position of the last digit of the digit run that starts at p.
DigitsEnd(line, p) ==
    CHOOSE q \in p..Len(line) :
        /\ \A k \in p..q : IsDigit(Char(line, k))
        /\ q = Len(line) \/ ~IsDigit(Char(line, q + 1))

\* Where the line's right-hand side begins: past the first " = " of a
\* statement, at the start of a line that assigns nothing.
RhsStart(line) ==
    LET Eq == { p \in 1..(Len(line) - 2) : SubSeq(line, p, p + 2) = " = " }
    IN  IF Eq = {} THEN 1 ELSE (CHOOSE p \in Eq : \A q \in Eq : p <= q) + 3

\* The temporaries the line uses: the identifiers tmp<digits> of its
\* right-hand side.
TemporariesUsed(line) ==
    { SubSeq(line, p, DigitsEnd(line, p + 3)) :
        p \in { p \in RhsStart(line)..(Len(line) - 3) :
                  /\ SubSeq(line, p, p + 2) = "tmp"
                  /\ IsDigit(Char(line, p + 3))
                  /\ p = 1 \/ ~IsIdentChar(Char(line, p - 1))
                  /\ DigitsEnd(line, p + 3) = Len(line)
                       \/ ~IsIdentChar(Char(line, DigitsEnd(line, p + 3) + 1)) } }

\* Lines of the body written so far: what follows the comment line.
BodyLines == 2..Len(c_file)

\* Every temporary a line of the body uses is assigned by an earlier line.
DefinedBeforeUse ==
    \A i \in BodyLines : \A t \in TemporariesUsed(c_file[i]) :
        \E j \in BodyLines : j < i /\ Contains(c_file[j], " " \o t \o " = ")

\* The return expression is the temporary of the highest id assigned.
ReturnsLastTemporary ==
    /\ tmp_id > 0
    /\ value = Some("tmp" \o Str(tmp_id - 1))
    /\ Last(c_file) = Spaces(c_indent) \o "return tmp" \o Str(tmp_id - 1) \o ";"
    /\ AssignmentsOf(tmp_id - 1) # {}
    /\ \A n \in tmp_id..(tmp_id + 3) : AssignmentsOf(n) = {}

\* C24: in the body the statement compiler emits, each temporary tmpN used as
\* an operand of a statement or as the return expression is assigned by a
\* statement emitted earlier in that body; and when an equation with at least
\* one operator compiles successfully the return expression is the
\* highest-numbered temporary assigned.
C24_DefinedBeforeUse ==
    mode = "code" =>
        /\ DefinedBeforeUse
        /\ pc = "done" /\ OperatorPositions # {} => ReturnsLastTemporary

(* -------------------------------- C25 --------------------------------- *)

\* The call of the reader of the counter of index s, as generated code spells it.
ReaderCall(s) == read_sym(counters[s]) \o "(perf, metric_set, accumulator)"

\* The counters resolve_variable resolves the token to the reader of.
ResolvedSiblings(t) ==
    { s \in 1..Len(counters) : resolve_variable(t, counters) = Some(ReaderCall(s)) }

\* What replace_func gives for the token if it substitutes exactly the tokens
\* the resolver resolves to a sibling's reader, by that sibling's hash.
HashAsResolved(t) ==
    IF ResolvedSiblings(t) = {} THEN t
    ELSE read_hash[CHOOSE s \in ResolvedSiblings(t) : TRUE][1]

\* C25: for every Set and every token, compute_hashes substitutes the token by
\* a sibling counter's hash if and only if resolve_variable resolves the token
\* to that sibling's reader call, also when the token is both a key of the
\* Hardware Variable Table and a counter symbol of the Set: every token mapped
\* by a running compute_hashes call, and so every hash of the Set once built,
\* is the hash of the sibling the resolver names, or else the token itself.
C25_ConsistentClassification ==
    mode = "hash" =>
        /\ \A f \in 1..Len(frames) : \A p \in 1..Len(frames[f].acc) :
             frames[f].acc[p] = HashAsResolved(frames[f].toks[p])
        /\ pc = "done" =>
             \A i \in 1..Len(counters) :
                 /\ read_hash[i] =
                      Some(Join(" ", [ p \in 1..Len(Split(counters[i].equation)) |->
                                         HashAsResolved(Split(counters[i].equation)[p]) ]))
                 /\ counters[i].max_equation # None =>
                      max_hash[i] =
                        Some(Join(" ", [ p \in 1..Len(Split(counters[i].max_equation[1])) |->
                                           HashAsResolved(Split(counters[i].max_equation[1])[p]) ]))

=============================================================================
